---- MODULE Spec2Model ----
(***************************************************************************)
(* Model of the tab group component (src/src/TabGroup.ts): the classes     *)
(* TabGroup and Tab.  A tab group keeps its tabs in `tabs`, the active tab *)
(* in `activeTab` and shows the content container of the active tab in its *)
(* content area `tabContent`.  A tab keeps its own `active` flag, which it *)
(* sets from the 'tab' events of the tab group it is mounted in.           *)
(*                                                                         *)
(* Every method of TabGroup is an operator from a state record to a state  *)
(* record (or to a record with the state `st` and the returned value), and *)
(* an action applies the operator to the current state.                    *)
(*                                                                         *)
(* The disclosure container (src/src/DisclosureContainer.ts), the scroll   *)
(* container (src/unnamed/part_004) and the labeled components             *)
(* (src/unnamed/part_006, part_008) are modelled the same way, each with a *)
(* variable and a specification of its own.                                *)
(***************************************************************************)
EXTENDS Integers, Sequences, FiniteSets, TLC

\* Number of Tab instances that exist.
NumTabs == 3
\* Number of TabGroup instances that exist.
NumGroups == 2
\* Largest number of tabs passed to one call of a variadic method.
MaxArgs == 2

Tab == 1..NumTabs
Group == 1..NumGroups
\* JavaScript `undefined`.
None == 0

VARIABLES
    tabs,        \* TabGroup.tabs: the tabs of each group, in header order
    headers,     \* children of TabGroup.tabHeadersContainer (the mounted tabs)
    activeTab,   \* TabGroup.activeTab
    tabContent,  \* children of TabGroup.tabContent: tabs whose Content is shown
    tabActive,   \* Tab.active
    tabGroup,    \* Tab.tabGroup: the group whose 'tab' events the tab handles
    disposed,    \* tabs that were disposed
    elsewhere,   \* "header"/"content": part of the tab mounted in a foreign component
    thrown,      \* whether the last call ended by throwing an Error
    dc,          \* a DisclosureContainer: its fields and the parts of its DOM
    sc,          \* a ScrollContainer: its fields, its DOM and the layout of the DOM
    lc           \* the labeled components: their fields, classes and children

tabGroupVars == <<tabs, headers, activeTab, tabContent, tabActive, tabGroup, disposed, elsewhere, thrown>>
vars == <<tabGroupVars, dc, sc, lc>>

\* The current state as one record.
S == [tabs |-> tabs, headers |-> headers, activeTab |-> activeTab, tabContent |-> tabContent,
      active |-> tabActive, tabGroup |-> tabGroup, disposed |-> disposed,
      elsewhere |-> elsewhere]

----------------------------------------------------------------------------
(* Arrays *)

Range(seq) == {seq[i] : i \in 1..Len(seq)}

\* Array.prototype.includes
Includes(seq, x) == \E i \in 1..Len(seq) : seq[i] = x

\* Array.prototype.indexOf: 0-based index of the first occurrence, or -1.
IndexOf(seq, x) ==
    IF Includes(seq, x)
    THEN (CHOOSE i \in 1..Len(seq) : seq[i] = x /\ \A j \in 1..(i - 1) : seq[j] # x) - 1
    ELSE -1

\* seq[i] with a 0-based index: `undefined` outside of the array.
At(seq, i) == IF i \in 0..(Len(seq) - 1) THEN seq[i + 1] ELSE None

\* Array.prototype.at(-1)
AtLast(seq) == IF Len(seq) = 0 THEN None ELSE seq[Len(seq)]

\* [...new Set(seq)]: the first occurrence of every element, in order.
Unique(seq) ==
    LET keep(i) == \A j \in 1..(i - 1) : seq[j] # seq[i]
        F[i \in 0..Len(seq)] ==
            IF i = 0 THEN <<>>
            ELSE IF keep(i) THEN Append(F[i - 1], seq[i]) ELSE F[i - 1]
    IN F[Len(seq)]

\* Array.prototype.filter(e => set.includes(e))
FilterIn(seq, set) == SelectSeq(seq, LAMBDA e : e \in set)
FilterOut(seq, set) == SelectSeq(seq, LAMBDA e : e \notin set)

----------------------------------------------------------------------------
(* Tab *)

\* Tab.Parent || Tab.Connected || Tab.Content.Parent || Tab.Content.Connected
HasParent(s, tab) ==
    \/ \E g \in Group : Includes(s.headers[g], tab)
    \/ \E g \in Group : tab \in s.tabContent[g]
    \/ s.elsewhere[tab] # "none"

\* Tab.onDidMount as a child of the headers container of group g.
onDidMount(s, g, tab) == [s EXCEPT !.tabGroup[tab] = g]

\* Tab.onDidUnmount
onDidUnmount(s, tab) == [s EXCEPT !.tabGroup[tab] = None, !.active[tab] = FALSE]

\* this.emit(new TabEvent(this, tab, act)): every tab that handles the 'tab'
\* events of g runs Tab.tabEvent, which acts only in the tab of the event.
emit(s, g, tab, act) ==
    IF s.tabGroup[tab] = g THEN [s EXCEPT !.active[tab] = act] ELSE s

----------------------------------------------------------------------------
(* The component container of the headers (tabHeadersContainer) *)

\* An insertion position: a number or a tab.
AtNum(n) == <<"num", n>>
AtTab(tab) == <<"tab", tab>>

\* Unmounts the given children of the headers container of g.
RECURSIVE UnmountAll(_, _)
UnmountAll(s, comps) ==
    IF comps = <<>> THEN s
    ELSE UnmountAll(onDidUnmount(s, Head(comps)), Tail(comps))

\* Mounts the given components in the headers container of g.
RECURSIVE MountAll(_, _, _)
MountAll(s, g, comps) ==
    IF comps = <<>> THEN s
    ELSE MountAll(onDidMount(s, g, Head(comps)), g, Tail(comps))

\* tabHeadersContainer.append(...comps)
HeadersAppend(s, g, comps) ==
    MountAll([s EXCEPT !.headers[g] = s.headers[g] \o comps], g, comps)

\* tabHeadersContainer.remove(...comps) and the removing part of
\* tabHeadersContainer.extract(to, ...comps): no components means all children.
HeadersRemove(s, g, comps) ==
    LET gone == IF comps = <<>> THEN s.headers[g]
                ELSE FilterIn(Unique(comps), Range(s.headers[g]))
    IN UnmountAll([s EXCEPT !.headers[g] = FilterOut(s.headers[g], Range(gone))], gone)

\* What tabHeadersContainer.extract(to, ...comps) pushes to `to`.
HeadersExtracted(s, g, comps) ==
    IF comps = <<>> THEN s.headers[g]
    ELSE FilterIn(Unique(comps), Range(s.headers[g]))

\* tabHeadersContainer.insert(at, ...comps): `at` below 0 counts as 0, `at`
\* behind the last child appends, `at` as a child inserts at its position.
\* Every inserted component is removed from its place and mounted again
\* (the 'remove'/'onBeforeMount'/'onDidMount' operations of insert()), also
\* a tab that is moved inside its group.
HeadersInsert(s, g, at, comps) ==
    IF comps = <<>> THEN s
    ELSE
        LET own  == FilterIn(comps, Range(s.headers[g]))
            rest == FilterOut(s.headers[g], Range(comps))
            pos  == IF at[1] = "num"
                    THEN (IF at[2] < 0 THEN 0
                          ELSE IF at[2] >= Len(rest) THEN Len(rest) ELSE at[2])
                    ELSE (IF Includes(rest, at[2]) THEN IndexOf(rest, at[2])
                          ELSE Len(rest))
            s1   == UnmountAll(s, own)
            s2   == [s1 EXCEPT !.headers[g] =
                        SubSeq(rest, 1, pos) \o comps \o SubSeq(rest, pos + 1, Len(rest))]
        IN MountAll(s2, g, comps)

----------------------------------------------------------------------------
(* TabGroup *)

\* The loop of active(): a 'tab' event with Active false for every active tab.
RECURSIVE EmitDeactivate(_, _, _)
EmitDeactivate(s, g, ts) ==
    IF ts = <<>> THEN s
    ELSE EmitDeactivate(IF s.active[Head(ts)] THEN emit(s, g, Head(ts), FALSE) ELSE s,
                        g, Tail(ts))

\* active() without the loop that deactivates the tabs that are active.
active_NoDeactivation(s, g, tab) ==
    IF tab = None \/ tab = s.activeTab[g] \/ ~Includes(s.tabs[g], tab)
    THEN s
    ELSE
        LET s2 == [s EXCEPT !.activeTab[g] = tab]
            s3 == [s2 EXCEPT !.tabContent[g] = {tab}]
        IN emit(s3, g, tab, TRUE)

\* TabGroup.active(tab)
active(s, g, tab) ==
    IF tab = None \/ tab = s.activeTab[g] \/ ~Includes(s.tabs[g], tab)
    THEN s
    ELSE
        LET s1 == EmitDeactivate(s, g, s.tabs[g])
            s2 == [s1 EXCEPT !.activeTab[g] = tab]
            s3 == [s2 EXCEPT !.tabContent[g] = {tab}]
        IN emit(s3, g, tab, TRUE)

\* TabGroup.syncTabs()
syncTabs(s, g) ==
    LET s1 == [s EXCEPT !.tabs[g] = s.headers[g]]
    IN IF Len(s1.tabs[g]) = 0 THEN [s1 EXCEPT !.activeTab[g] = None] ELSE s1

\* TabGroup.first()
first(s, g) == active(s, g, At(s.tabs[g], 0))

\* TabGroup.last()
last(s, g) == active(s, g, AtLast(s.tabs[g]))

\* TabGroup.previous()
previous(s, g) ==
    LET index == IndexOf(s.tabs[g], s.activeTab[g])
    IN CASE index = -1 -> s
         [] index = 0 -> last(s, g)
         [] OTHER -> active(s, g, At(s.tabs[g], index - 1))

\* next() that stops at the last tab instead of cycling.
next_NoCycle(s, g) ==
    LET index == IndexOf(s.tabs[g], s.activeTab[g])
    IN CASE index = -1 -> s
         [] index = Len(s.tabs[g]) - 1 -> s
         [] OTHER -> active(s, g, At(s.tabs[g], index + 1))

\* TabGroup.next()
next(s, g) ==
    LET index == IndexOf(s.tabs[g], s.activeTab[g])
    IN CASE index = -1 -> s
         [] index = Len(s.tabs[g]) - 1 -> first(s, g)
         [] OTHER -> active(s, g, At(s.tabs[g], index + 1))

\* TabGroup.getTabToActivateAfterRemoval(tabsToRemove)
getTabToActivateAfterRemoval(s, g, tabsToRemove) ==
    IF s.activeTab[g] = None \/ ~Includes(tabsToRemove, s.activeTab[g])
    THEN None
    ELSE
        LET uniques == FilterIn(Unique(tabsToRemove), Range(s.tabs[g]))
            \* the Index members of `sorted`
            indices == {IndexOf(s.tabs[g], uniques[i]) : i \in 1..Len(uniques)}
            \* sorted[0].Index
            lowest == CHOOSE i \in indices : \A j \in indices : i <= j
            \* the while loop: the first index right of the active tab that
            \* is not an index of `sorted`
            scan[i \in 0..(Len(s.tabs[g]) + 1)] ==
                IF i \in indices THEN scan[i + 1] ELSE i
            firstQualifiedIndexRightOfActiveTab ==
                scan[IndexOf(s.tabs[g], s.activeTab[g]) + 1]
        IN IF Len(uniques) = 0 THEN None
           ELSE IF firstQualifiedIndexRightOfActiveTab >= Len(s.tabs[g])
                THEN At(s.tabs[g], lowest - 1)
                ELSE At(s.tabs[g], firstQualifiedIndexRightOfActiveTab)

\* tab.Content.Parent?.remove(tab.Content) for every tab of ts
RECURSIVE RemoveContent(_, _)
RemoveContent(s, ts) ==
    IF ts = <<>> THEN s
    ELSE
        LET tab == Head(ts)
            s1  == [s EXCEPT !.tabContent = [g \in Group |-> s.tabContent[g] \ {tab}],
                             !.elsewhere[tab] =
                                 IF s.elsewhere[tab] = "content" THEN "none"
                                 ELSE s.elsewhere[tab]]
        IN RemoveContent(s1, Tail(ts))

\* append() taking every given tab, mounted elsewhere or not.
NewTabs_NoFilter(s, ts) == Unique(ts)

\* The tabs of ts that append() takes: those with no parent.
NewTabs(s, ts) == SelectSeq(Unique(ts), LAMBDA tab : ~HasParent(s, tab))

\* append() that does not activate the first appended tab of an empty group.
append_NoActivation(s, g, ts) ==
    IF Len(ts) = 0 THEN s
    ELSE
        LET newTabs  == NewTabs(s, ts)
            firstTab == At(newTabs, 0)
            s1       == syncTabs(HeadersAppend(s, g, newTabs), g)
        IN IF firstTab = None THEN s ELSE s1

\* TabGroup.append(...tabs)
append(s, g, ts) ==
    IF Len(ts) = 0 THEN s
    ELSE
        LET newTabs  == NewTabs(s, ts)
            firstTab == At(newTabs, 0)
            wasEmpty == Len(s.tabs[g]) = 0
            s1       == syncTabs(HeadersAppend(s, g, newTabs), g)
        IN IF firstTab = None THEN s
           ELSE IF wasEmpty THEN active(s1, g, firstTab) ELSE s1

\* The tabs of ts that insert() takes: tabs of this group and tabs with no parent.
InsertTabs(s, g, ts) ==
    SelectSeq(Unique(ts), LAMBDA tab : Includes(s.tabs[g], tab) \/ ~HasParent(s, tab))

\* TabGroup.insert(at, ...tabs)
insert(s, g, at, ts) ==
    IF Len(ts) = 0 THEN s
    ELSE syncTabs(HeadersInsert(s, g, at, InsertTabs(s, g, ts)), g)

\* TabGroup.remove(...tabs)
remove(s, g, ts) ==
    IF Len(ts) = 0 THEN s
    ELSE
        LET tabsToRemove == FilterIn(Unique(ts), Range(s.tabs[g]))
            newActiveTab == getTabToActivateAfterRemoval(s, g, tabsToRemove)
            s1 == RemoveContent(s, tabsToRemove)
            s2 == syncTabs(HeadersRemove(s1, g, tabsToRemove), g)
        IN IF Len(tabsToRemove) = 0 THEN s
           ELSE active(s2, g, newActiveTab)

\* TabGroup.extract(to, ...tabs): the state afterwards and what was pushed to `to`
extract(s, g, ts) ==
    IF Len(ts) = 0
    THEN [st |-> syncTabs(HeadersRemove(RemoveContent(s, s.tabs[g]), g, ts), g),
          to |-> HeadersExtracted(s, g, ts)]
    ELSE
        LET tabsToExtract == FilterIn(Unique(ts), Range(s.tabs[g]))
            newActiveTab  == getTabToActivateAfterRemoval(s, g, tabsToExtract)
            s1 == RemoveContent(s, tabsToExtract)
            s2 == syncTabs(HeadersRemove(s1, g, tabsToExtract), g)
        IN IF Len(tabsToExtract) = 0 THEN [st |-> s, to |-> <<>>]
           ELSE [st |-> active(s2, g, newActiveTab),
                 to |-> HeadersExtracted(s, g, tabsToExtract)]

\* moveTo() that appends the given tabs to target without extracting them.
moveTo_NoExtract(s, g, target, ts) ==
    IF target = g THEN [st |-> s, ret |-> "throw"]
    ELSE [st |-> append(s, target, IF ts = <<>> THEN s.tabs[g] ELSE ts), ret |-> "this"]

\* TabGroup.moveTo(target, ...tabs): the state afterwards and "throw" or "this"
moveTo(s, g, target, ts) ==
    IF target = g THEN [st |-> s, ret |-> "throw"]
    ELSE
        LET e == extract(s, g, ts)
        IN [st |-> append(e.st, target, e.to), ret |-> "this"]

\* moveToAt() without the check of `at`.
moveToAt_NoAtCheck(s, g, target, at, ts) ==
    IF target = g THEN [st |-> s, ret |-> "throw"]
    ELSE
        LET e == extract(s, g, ts)
        IN [st |-> insert(e.st, target, at, e.to), ret |-> "this"]

\* TabGroup.moveToAt(target, at, ...tabs): the state afterwards and "throw" or "this"
moveToAt(s, g, target, at, ts) ==
    IF target = g THEN [st |-> s, ret |-> "throw"]
    ELSE IF at[1] # "num" /\ ~Includes(s.tabs[target], at[2])
    THEN [st |-> s, ret |-> "throw"]
    ELSE
        LET e == extract(s, g, ts)
        IN [st |-> insert(e.st, target, at, e.to), ret |-> "this"]

\* tab.dispose()
dispose(s, tab) == [s EXCEPT !.disposed[tab] = TRUE]

\* TabGroup.requestActivateTab(tab): the state afterwards and the returned value
requestActivateTab(s, g, tab) ==
    IF ~Includes(s.tabs[g], tab) THEN [st |-> s, ret |-> FALSE]
    ELSE [st |-> active(s, g, tab), ret |-> TRUE]

\* TabGroup.requestCloseTab(tab): the state afterwards and the returned value
requestCloseTab(s, g, tab) ==
    LET index == IndexOf(s.tabs[g], tab)
        wasActive == At(s.tabs[g], index) = s.activeTab[g]
        s1 == dispose(remove(s, g, <<tab>>), tab)
        follower == At(s1.tabs[g], index)
    IN IF index = -1 THEN [st |-> s, ret |-> FALSE]
       ELSE [st |-> IF wasActive
                    THEN active(s1, g, IF follower # None THEN follower
                                       ELSE AtLast(s1.tabs[g]))
                    ELSE s1,
             ret |-> TRUE]

----------------------------------------------------------------------------
(* DisclosureContainer (src/src/DisclosureContainer.ts)                     *)
(*                                                                         *)
(* The state of a disclosure container is a record: the fields _disclosed, *)
(* _weakUndisclosed, _appearance and _labels (`defined` holds the names of *)
(* the fields that were assigned, the others are `undefined`), the CSS     *)
(* classes of the component, caption and title of the disclose button, the *)
(* children of the root element `ui`, and the number of 'disclose' events  *)
(* dispatched so far.                                                      *)

\* Largest number of 'disclose' events one container dispatches.
MaxDiscloseEvents == 3

\* enum DisclosureContainerAppearance: TOP_LEFT = 0, ..., LEFT_TOP
DisclosureContainerAppearance == 0..7

\* Values of the type DisclosureContainerLabels.
DisclosureContainerLabels ==
    {[Captions |-> <<"+", "-">>, Titles |-> <<"", "">>],
     [Captions |-> <<"Show", "Hide">>, Titles |-> <<"Show details", "Hide details">>]}

\* ui.append(child): the child becomes the last child of the root element.
uiAppend(s, child) ==
    [s EXCEPT !.uiChildren = Append(FilterOut(@, {child}), child)]

\* ui.remove(child)
uiRemove(s, child) == [s EXCEPT !.uiChildren = FilterOut(@, {child})]

\* DisclosureContainer.buildUI(): the container before any field is assigned.
DisclosureContainer_buildUI ==
    [defined |-> {}, disclosed |-> FALSE, weakUndisclosed |-> FALSE, appearance |-> 0,
     labels |-> [Captions |-> <<"", "">>, Titles |-> <<"", "">>],
     classes |-> {}, text |-> "", title |-> "",
     uiChildren |-> <<"header-container", "content-container">>,
     dispatched |-> 0]

\* DisclosureContainer.labels(labels)
labels(s, l) ==
    LET i == IF s.disclosed THEN 2 ELSE 1
    IN [s EXCEPT !.labels = l, !.defined = @ \cup {"_labels"},
                 !.text = l.Captions[i], !.title = l.Titles[i]]

\* disclosed() setting the state that it has already.
disclosed_NoChangeCheck(s, v, prevented) ==
    LET s1 == [s EXCEPT !.dispatched = @ + 1]
        s2 == [s1 EXCEPT !.disclosed = v, !.defined = @ \cup {"_disclosed"},
                         !.classes = (@ \ {"disclosed", "undisclosed"})
                                        \cup {IF v THEN "disclosed" ELSE "undisclosed"},
                         !.text = s.labels.Captions[IF v THEN 2 ELSE 1],
                         !.title = s.labels.Titles[IF v THEN 2 ELSE 1]]
    IN IF prevented THEN s1
       ELSE IF s.weakUndisclosed THEN s2
       ELSE IF v THEN uiAppend(s2, "content-container")
       ELSE uiRemove(s2, "content-container")

\* DisclosureContainer.disclosed(disclosed); prevented tells whether a handler
\* of the 'disclose' event calls preventDefault(), if the event is dispatched.
disclosed(s, v, prevented) ==
    IF "_disclosed" \notin s.defined \/ v # s.disclosed
    THEN LET s1 == [s EXCEPT !.dispatched = @ + 1]
         IN IF prevented THEN s1
            ELSE LET s2 == [s1 EXCEPT !.disclosed = v, !.defined = @ \cup {"_disclosed"}]
                 IN IF v
                    THEN LET s3 == [s2 EXCEPT !.classes = (@ \ {"undisclosed"}) \cup {"disclosed"},
                                              !.text = s.labels.Captions[2],
                                              !.title = s.labels.Titles[2]]
                         IN IF s.weakUndisclosed THEN s3
                            ELSE uiAppend(s3, "content-container")
                    ELSE LET s3 == [s2 EXCEPT !.classes = (@ \ {"disclosed"}) \cup {"undisclosed"},
                                              !.text = s.labels.Captions[1],
                                              !.title = s.labels.Titles[1]]
                         IN IF s.weakUndisclosed THEN s3
                            ELSE uiRemove(s3, "content-container")
    ELSE s

\* DisclosureContainer.toggleDisclosed()
toggleDisclosed(s, prevented) == disclosed(s, ~s.disclosed, prevented)

\* The 'click' listener of the disclose button: this.Disclosed = !this.Disclosed
onDiscloseButtonClick(s, prevented) == disclosed(s, ~s.disclosed, prevented)

\* DisclosureContainer.weakUndisclosed(weak)
weakUndisclosed(s, weak) ==
    IF "_weakUndisclosed" \notin s.defined \/ s.weakUndisclosed # weak
    THEN LET s1 == [s EXCEPT !.weakUndisclosed = weak,
                             !.defined = @ \cup {"_weakUndisclosed"},
                             !.classes = IF weak THEN @ \cup {"weak"} ELSE @ \ {"weak"}]
         IN IF ~s.disclosed
            THEN IF weak THEN uiAppend(s1, "content-container")
                 ELSE uiRemove(s1, "content-container")
            ELSE s1
    ELSE s

\* The class name appearance() sets for an appearance.
AppearanceClass(a) ==
    CASE a = 0 -> "top-left"
      [] a = 1 -> "top-right"
      [] a = 2 -> "right-top"
      [] a = 3 -> "right-bottom"
      [] a = 4 -> "bottom-right"
      [] a = 5 -> "bottom-left"
      [] a = 6 -> "left-bottom"
      [] a = 7 -> "left-top"
      [] OTHER -> "top-left"

\* DisclosureContainer.appearance(appearance)
appearance(s, a) ==
    IF "_appearance" \notin s.defined \/ s.appearance # a
    THEN [s EXCEPT !.appearance = a, !.defined = @ \cup {"_appearance"},
                   !.classes = (@ \ {AppearanceClass(b) : b \in DisclosureContainerAppearance})
                                  \cup {AppearanceClass(a)}]
    ELSE s

\* new DisclosureContainer(header, content, labels, disclosed, weakUndisclosed,
\* appearance): no handler of 'disclose' exists yet.
DisclosureContainer(l, d, weak, a) ==
    appearance(disclosed(weakUndisclosed(labels(DisclosureContainer_buildUI, l), weak), d, FALSE), a)

----------------------------------------------------------------------------
(* ScrollContainer (src/unnamed/part_004)                                   *)
(*                                                                         *)
(* The state of a scroll container is a record: the private fields, the    *)
(* CSS classes of the component, the scroll bar overlays mounted in the    *)
(* root element, the style properties that the class sets on overlays and  *)
(* thumbs, and `dom`, the layout of the DOM that the class reads: writing  *)
(* direction and, for each axis, the client and scroll extent of the       *)
(* content element, its scroll position and the length by which the thumb  *)
(* is shorter than its bar when the bar is shown.  The length and the      *)
(* inset of the overlays, the scroll bar adjustments (always 0 here) and   *)
(* the pointer handlers are not part of the model.  #_horizontal,          *)
(* #_vertical and #_native stay as the constructor has set them, and the   *)
(* layout is followed while the class syncs on its changes: not while      *)
(* native scroll bars are used.                                            *)

\* Largest client and scroll extent of the content element, in pixels.
MaxExtent == 3
\* Largest difference of the lengths of a bar and its thumb, in pixels.
MaxBarRange == 2

\* Numbers are fractions <<n, d>> in lowest terms with d >= 0; <<1, 0>> and
\* <<-1, 0>> are Infinity and -Infinity, <<0, 0>> is NaN.
Abs(x) == IF x < 0 THEN -x ELSE x

RECURSIVE GCD(_, _)
GCD(a, b) == IF b = 0 THEN a ELSE GCD(b, a % b)

NaN == <<0, 0>>

\* n / d
Quot(n, d) ==
    IF d = 0 THEN <<(IF n > 0 THEN 1 ELSE IF n < 0 THEN -1 ELSE 0), 0>>
    ELSE LET g == GCD(Abs(n), Abs(d))
             sgn == IF d < 0 THEN -1 ELSE 1
         IN <<(sgn * n) \div g, (sgn * d) \div g>>

\* p < q (false if one of them is NaN)
Less(p, q) == p[1] * q[2] < q[1] * p[2]

\* Math.min, Math.max
MathMin(p, q) == IF p = NaN \/ q = NaN THEN NaN ELSE IF Less(q, p) THEN q ELSE p
MathMax(p, q) == IF p = NaN \/ q = NaN THEN NaN ELSE IF Less(p, q) THEN q ELSE p

\* ScrollContainer.#putIntoRange(n, rangeEnd1, rangeEnd2)
putIntoRange(n, rangeEnd1, rangeEnd2) ==
    IF rangeEnd1 = rangeEnd2 THEN rangeEnd1
    ELSE IF Less(rangeEnd1, rangeEnd2)
         THEN MathMax(MathMin(n, rangeEnd2), rangeEnd1)
         ELSE MathMax(MathMin(n, rangeEnd1), rangeEnd2)

\* scrollWidth || 0.000001, scrollHeight || 0.000001
OrEpsilon(x) == IF x = 0 THEN <<1, 1000000>> ELSE <<x, 1>>

\* The layouts of one axis: client extent <= scroll extent, and the thumb is
\* shorter than its bar only if there is something to scroll.
AxisLayouts ==
    {a \in [client : 0..MaxExtent, scroll : 0..MaxExtent, room : 0..MaxBarRange] :
        /\ a.client <= a.scroll
        /\ a.room > 0 => (0 < a.client /\ a.client < a.scroll)}

\* The classes of the content element #scrollable.
ScrollableClasses == {"content"}

\* #scrollable.offsetWidth, offsetHeight: the content element has no border
\* and, without the class 'native', no scroll bar of its own.
OffsetExtent(axis) == axis.client

\* bar.offsetWidth - thumb.offsetWidth (offsetHeight): both are 0 if the
\* overlay is not mounted or not displayed.
BarRoom(mountedOverlay, display, axis) ==
    IF mountedOverlay /\ display # "none" THEN axis.room ELSE 0

\* ScrollContainer.buildUI(), after the constructor has set #_horizontal and
\* #_vertical: nothing is mounted in a document yet, all extents are 0.
ScrollContainer_buildUI(h, v) ==
    [horizontal |-> h, vertical |-> v, native |-> FALSE, isRTL |-> FALSE,
     classes |-> (IF h THEN {"horizontal"} ELSE {}) \cup (IF v THEN {"vertical"} ELSE {}),
     overlays |-> (IF h THEN {"h"} ELSE {}) \cup (IF v THEN {"v"} ELSE {}),
     hScrollRange |-> 0, hBarScrollRange |-> 0, vScrollRange |-> 0, vBarScrollRange |-> 0,
     hBarOverlayDisplay |-> "", hBarThumbWidth |-> <<>>, hBarThumbInsetInlineStart |-> <<>>,
     vBarOverlayDisplay |-> "", vBarThumbHeight |-> <<>>, vBarThumbInsetBlockStart |-> <<>>,
     vBarThumbInsetInlineStart |-> <<>>,
     dom |-> [rtl |-> FALSE,
              h |-> [client |-> 0, scroll |-> 0, room |-> 0, pos |-> 0],
              v |-> [client |-> 0, scroll |-> 0, room |-> 0, pos |-> 0]]]

\* ScrollContainer.#repositionScrollBars(); a length of NaNpx is no CSS value
\* and leaves the property as it is.
repositionScrollBars(s) ==
    IF s.native THEN s
    ELSE
        LET scrollLeft == s.dom.h.pos
            scrollTop  == s.dom.v.pos
            hInset == putIntoRange(
                          Quot(s.hBarScrollRange * (IF s.isRTL THEN -scrollLeft ELSE scrollLeft),
                               s.hScrollRange),
                          <<0, 1>>, <<s.hBarScrollRange, 1>>)
            vInset == putIntoRange(
                          Quot(s.vBarScrollRange * scrollTop, s.vScrollRange),
                          <<0, 1>>, <<s.vBarScrollRange, 1>>)
            s1 == IF s.horizontal /\ s.hBarScrollRange > 0
                  THEN IF hInset = NaN THEN s
                       ELSE [s EXCEPT !.hBarThumbInsetInlineStart = hInset]
                  ELSE [s EXCEPT !.hBarOverlayDisplay = "none",
                                 !.hBarThumbInsetInlineStart = <<>>]
        IN IF s.vertical /\ s.vBarScrollRange > 0
           THEN IF vInset = NaN THEN s1
                ELSE [s1 EXCEPT !.vBarThumbInsetBlockStart = vInset]
           ELSE [s1 EXCEPT !.vBarOverlayDisplay = "none",
                           !.vBarThumbInsetInlineStart = <<>>]

\* ScrollContainer.#syncScrollBarGeometry()
syncScrollBarGeometry(s) ==
    IF s.native THEN s
    ELSE
        LET s1 == [s EXCEPT !.isRTL = s.dom.rtl,
                            !.classes = IF s.dom.rtl THEN @ \cup {"rtl"} ELSE @ \ {"rtl"}]
            w  == <<s.dom.h.client, 1>>
            sw == OrEpsilon(s.dom.h.scroll)
            hasHOff == s.horizontal /\ ~Less(w, sw)
            s2 == IF s.horizontal
                  THEN [s1 EXCEPT
                          !.hBarOverlayDisplay = IF Less(w, sw) THEN "" ELSE "none",
                          !.classes = IF hasHOff THEN @ \cup {"h-off"} ELSE @ \ {"h-off"},
                          !.hBarThumbWidth = IF Less(w, sw)
                                             THEN Quot(w[1] * sw[2] * 100, sw[1])
                                             ELSE <<100, 1>>]
                  ELSE [s1 EXCEPT !.hBarOverlayDisplay = "none"]
            h  == <<s.dom.v.client, 1>>
            sh == OrEpsilon(s.dom.v.scroll)
            hasVOff == s.vertical /\ ~Less(h, sh)
            s3 == IF s.vertical
                  THEN [s2 EXCEPT
                          !.vBarOverlayDisplay = IF Less(h, sh) THEN "" ELSE "none",
                          !.classes = IF hasVOff THEN @ \cup {"v-off"} ELSE @ \ {"v-off"},
                          !.vBarThumbHeight = IF Less(h, sh)
                                              THEN Quot(h[1] * sh[2] * 100, sh[1])
                                              ELSE <<100, 1>>]
                  ELSE [s2 EXCEPT !.vBarOverlayDisplay = "none"]
            reposition == \/ s.horizontal /\ "v-off" \notin ScrollableClasses
                          \/ s.vertical /\ "h-off" \notin ScrollableClasses
            s4 == [s3 EXCEPT
                     !.hScrollRange = s.dom.h.scroll - OffsetExtent(s.dom.h),
                     !.hBarScrollRange = BarRoom("h" \in s.overlays, s3.hBarOverlayDisplay, s.dom.h),
                     !.vScrollRange = s.dom.v.scroll - OffsetExtent(s.dom.v),
                     !.vBarScrollRange = BarRoom("v" \in s.overlays, s3.vBarOverlayDisplay, s.dom.v)]
        IN IF reposition THEN repositionScrollBars(s4) ELSE s4

\* ScrollContainer.#syncScrollBars(event), the 'scroll' listener
syncScrollBars(s) == repositionScrollBars([s EXCEPT !.classes = @ \cup {"scrolling"}])

\* ScrollContainer.native(native)
native(s, v) ==
    IF v # s.native
    THEN IF v
         THEN [s EXCEPT !.native = TRUE, !.overlays = {}, !.classes = @ \cup {"native"}]
         ELSE syncScrollBarGeometry(
                  [s EXCEPT !.native = FALSE, !.overlays = {"h", "v"},
                            !.classes = @ \ {"native"}])
    ELSE s

\* ScrollContainer.horizontalAdjustment(), verticalAdjustment() without an
\* adjustment: offset and reduction are 0.
horizontalAdjustment(s) == syncScrollBarGeometry(s)
verticalAdjustment(s) == syncScrollBarGeometry(s)

\* new ScrollContainer(horizontal, vertical, native)
ScrollContainer(h, v, n) ==
    native(verticalAdjustment(horizontalAdjustment(ScrollContainer_buildUI(h, v))), n)

----------------------------------------------------------------------------
(* LabeledComponent (src/unnamed/part_006) with its subclass               *)
(* LabeledTextArea (src/unnamed/part_008): a div `ui` with a label and a   *)
(* textarea, and the CSS classes of the position and the alignment of the  *)
(* label.                                                                  *)

\* Number of labeled components that exist.
NumLabeled == 2
Labeled == 1..NumLabeled

\* enum LabelPosition
LabelPosition_TOP == 1
LabelPosition_END == 2
LabelPosition_BOTTOM == 3
LabelPosition_START == 4
LabelPositions == {LabelPosition_TOP, LabelPosition_END, LabelPosition_BOTTOM, LabelPosition_START}

\* enum LabelAlignment
LabelAlignment_START == 1
LabelAlignment_CENTER == 2
LabelAlignment_END == 3
LabelAlignments == {LabelAlignment_START, LabelAlignment_CENTER, LabelAlignment_END}

\* `v ?? def`, and a parameter with the default value `def`
OrDefault(v, def) == IF v = None THEN def ELSE v

\* ui.Children[i], counted from 0
uiChild(s, i) == IF i + 1 \in DOMAIN s.uiChildren THEN s.uiChildren[i + 1] ELSE "undefined"

\* ui.insert(0, child): the child becomes the first child, moved if it is a
\* child already.
uiInsertFirst(s, child) == [s EXCEPT !.uiChildren = <<child>> \o FilterOut(@, {child})]

\* The constructor of LabeledComponent: the fields before initialize().
LabeledComponent(lblPosition, lblAlignment) ==
    [initialized |-> FALSE,
     lblPosition |-> OrDefault(lblPosition, LabelPosition_TOP),
     lblAlignment |-> OrDefault(lblAlignment, LabelAlignment_START),
     classes |-> {},
     uiChildren |-> <<>>]

\* LabeledTextArea.buildUI()
LabeledTextArea_buildUI(s) ==
    IF s.lblPosition = LabelPosition_START \/ s.lblPosition = LabelPosition_TOP
    THEN [s EXCEPT !.uiChildren = <<"label", "component">>]
    ELSE [s EXCEPT !.uiChildren = <<"component", "label">>]

labelPosition_KeepsClasses(s, v) ==
    IF s.initialized /\ v = s.lblPosition THEN s
    ELSE LET s1 == [s EXCEPT !.lblPosition = v]
             labelFirst == IF uiChild(s1, 0) # "label" THEN uiInsertFirst(s1, "label") ELSE s1
             labelLast == IF uiChild(s1, 1) # "label" THEN uiAppend(s1, "label") ELSE s1
         IN CASE v = LabelPosition_TOP -> [labelFirst EXCEPT !.classes = @ \cup {"p-top"}]
              [] v = LabelPosition_END -> [labelLast EXCEPT !.classes = @ \cup {"p-end"}]
              [] v = LabelPosition_BOTTOM -> [labelLast EXCEPT !.classes = @ \cup {"p-bottom"}]
              [] v = LabelPosition_START -> [labelFirst EXCEPT !.classes = @ \cup {"p-start"}]
              [] OTHER -> s1

\* LabeledComponent.labelPosition(v)
labelPosition(s, v) ==
    IF s.initialized /\ v = s.lblPosition THEN s
    ELSE LET s1 == [s EXCEPT !.lblPosition = v,
                            !.classes = @ \ {"p-top", "p-end", "p-bottom", "p-start"}]
             labelFirst == IF uiChild(s1, 0) # "label" THEN uiInsertFirst(s1, "label") ELSE s1
             labelLast == IF uiChild(s1, 1) # "label" THEN uiAppend(s1, "label") ELSE s1
         IN CASE v = LabelPosition_TOP -> [labelFirst EXCEPT !.classes = @ \cup {"p-top"}]
              [] v = LabelPosition_END -> [labelLast EXCEPT !.classes = @ \cup {"p-end"}]
              [] v = LabelPosition_BOTTOM -> [labelLast EXCEPT !.classes = @ \cup {"p-bottom"}]
              [] v = LabelPosition_START -> [labelFirst EXCEPT !.classes = @ \cup {"p-start"}]
              [] OTHER -> s1

\* LabeledComponent.labelAlignment(v)
labelAlignment(s, v) ==
    IF s.initialized /\ v = s.lblAlignment THEN s
    ELSE LET s1 == [s EXCEPT !.lblAlignment = v,
                            !.classes = @ \ {"a-start", "a-center", "a-end"}]
         IN CASE v = LabelAlignment_START -> [s1 EXCEPT !.classes = @ \cup {"a-start"}]
              [] v = LabelAlignment_CENTER -> [s1 EXCEPT !.classes = @ \cup {"a-center"}]
              [] v = LabelAlignment_END -> [s1 EXCEPT !.classes = @ \cup {"a-end"}]
              [] OTHER -> s1

\* LabeledComponent.initialize() of a LabeledTextArea
initialize(s) ==
    LET built == LabeledTextArea_buildUI(s)
        placed == labelAlignment(labelPosition(built, built.lblPosition), built.lblAlignment)
    IN [placed EXCEPT !.initialized = TRUE]

\* new LabeledTextArea(labelPhrase, ..., lblPosition, lblAlignment); None is
\* an argument that is not given.
LabeledTextArea(lblPosition, lblAlignment) ==
    initialize(LabeledComponent(OrDefault(lblPosition, LabelPosition_TOP), lblAlignment))

\* The getters LabelPosition and LabelAlignment.
LabelPosition(s) == s.lblPosition
LabelAlignment(s) == s.lblAlignment

----------------------------------------------------------------------------
(* The program: calls of the methods with all arguments within the bounds *)

\* The argument lists `...tabs`.
ArgSeqs == UNION {[1..n -> Tab] : n \in 0..MaxArgs}

\* The values of `at` for an insertion into group g: every index from below
\* the first position to the position behind the last tab, and every tab.
AtValues(g) == {AtNum(n) : n \in (-1)..Len(tabs[g])} \cup {AtTab(tab) : tab \in Tab}

\* Lists of tabs that exist (are not disposed).
Alive(ts) == \A i \in 1..Len(ts) : ~disposed[ts[i]]

\* The next state is s; threw tells whether the call threw an Error.
Becomes(s, threw) ==
    /\ tabs' = s.tabs
    /\ headers' = s.headers
    /\ activeTab' = s.activeTab
    /\ tabContent' = s.tabContent
    /\ tabActive' = s.active
    /\ tabGroup' = s.tabGroup
    /\ disposed' = s.disposed
    /\ elsewhere' = s.elsewhere
    /\ thrown' = threw
    /\ UNCHANGED <<dc, sc, lc>>

\* new TabGroup() for every group, new Tab() for every tab
NewTabGroups ==
    /\ tabs = [g \in Group |-> <<>>]
    /\ headers = [g \in Group |-> <<>>]
    /\ activeTab = [g \in Group |-> None]
    /\ tabContent = [g \in Group |-> {}]
    /\ tabActive = [tab \in Tab |-> FALSE]
    /\ tabGroup = [tab \in Tab |-> None]
    /\ disposed = [tab \in Tab |-> FALSE]
    /\ elsewhere = [tab \in Tab |-> "none"]
    /\ thrown = FALSE

\* The tab groups and tabs; the other components are made with the default
\* arguments of their constructors and nothing is done with them.
Init ==
    /\ NewTabGroups
    /\ dc = DisclosureContainer([Captions |-> <<"+", "-">>, Titles |-> <<"", "">>],
                                TRUE, FALSE, 0)
    /\ sc = ScrollContainer(TRUE, TRUE, FALSE)
    /\ lc = [i \in Labeled |-> LabeledTextArea(None, None)]

ActiveCall(g, tab) == Becomes(active(S, g, tab), FALSE)

First(g) == Becomes(first(S, g), FALSE)

Previous(g) == Becomes(previous(S, g), FALSE)

NextTab(g) == Becomes(next(S, g), FALSE)

Last(g) == Becomes(last(S, g), FALSE)

RequestActivateTab(g, tab) ==
    LET r == requestActivateTab(S, g, tab)
    IN Becomes(r.st, FALSE)

RequestCloseTab(g, tab) ==
    LET r == requestCloseTab(S, g, tab)
    IN Becomes(r.st, FALSE)

AppendCall(g, ts) == Alive(ts) /\ Becomes(append(S, g, ts), FALSE)

\* `at` is a number or a tab of this group that is not itself inserted.
InsertCall(g, at, ts) ==
    /\ Alive(ts)
    /\ at[1] = "tab" => Includes(tabs[g], at[2]) /\ ~Includes(ts, at[2])
    /\ Becomes(insert(S, g, at, ts), FALSE)

RemoveCall(g, ts) == Becomes(remove(S, g, ts), FALSE)

ExtractCall(g, ts) == Becomes(extract(S, g, ts).st, FALSE)

MoveTo(g, target, ts) ==
    LET r == moveTo(S, g, target, ts)
    IN Becomes(r.st, r.ret = "throw")

MoveToAt(g, target, at, ts) ==
    LET r == moveToAt(S, g, target, at, ts)
    IN Becomes(r.st, r.ret = "throw")

\* A component that is no tab group appends the tab or the content of a tab
\* that is not in use.
MountElsewhere(tab, part) ==
    /\ ~disposed[tab]
    /\ ~HasParent(S, tab)
    /\ Becomes([S EXCEPT !.elsewhere[tab] = part], FALSE)

\* The component removes the tab or the content again.
UnmountElsewhere(tab) ==
    /\ elsewhere[tab] # "none"
    /\ Becomes([(IF elsewhere[tab] = "header" THEN onDidUnmount(S, tab) ELSE S)
                    EXCEPT !.elsewhere[tab] = "none"],
               FALSE)

Next ==
    \/ \E g \in Group, tab \in Tab : ActiveCall(g, tab)
    \/ \E g \in Group : First(g)
    \/ \E g \in Group : Previous(g)
    \/ \E g \in Group : NextTab(g)
    \/ \E g \in Group : Last(g)
    \/ \E g \in Group, tab \in Tab : RequestActivateTab(g, tab)
    \/ \E g \in Group, tab \in Tab : RequestCloseTab(g, tab)
    \/ \E g \in Group, ts \in ArgSeqs : AppendCall(g, ts)
    \/ \E g \in Group : \E at \in AtValues(g), ts \in ArgSeqs : InsertCall(g, at, ts)
    \/ \E g \in Group, ts \in ArgSeqs : RemoveCall(g, ts)
    \/ \E g \in Group, ts \in ArgSeqs : ExtractCall(g, ts)
    \/ \E g \in Group, target \in Group, ts \in ArgSeqs : MoveTo(g, target, ts)
    \/ \E g \in Group, target \in Group : \E at \in AtValues(target), ts \in ArgSeqs :
            MoveToAt(g, target, at, ts)
    \/ \E tab \in Tab, part \in {"header", "content"} : MountElsewhere(tab, part)
    \/ \E tab \in Tab : UnmountElsewhere(tab)

Spec == Init /\ [][Next]_vars

----------------------------------------------------------------------------
(* The program of a disclosure container: every constructor call, then     *)
(* clicks on the disclose button and calls of the methods.                 *)

DiscloseInit ==
    /\ NewTabGroups
    /\ \E l \in DisclosureContainerLabels, d \in BOOLEAN, weak \in BOOLEAN,
          a \in DisclosureContainerAppearance :
            dc = DisclosureContainer(l, d, weak, a)
    /\ sc = ScrollContainer(TRUE, TRUE, FALSE)
    /\ lc = [i \in Labeled |-> LabeledTextArea(None, None)]

\* A call that may dispatch a 'disclose' event, within the bound of events.
Dispatching(s) ==
    /\ s.dispatched <= MaxDiscloseEvents
    /\ dc' = s
    /\ UNCHANGED <<tabGroupVars, sc, lc>>

ClickDiscloseButton(prevented) == Dispatching(onDiscloseButtonClick(dc, prevented))

ToggleDisclosed(prevented) == Dispatching(toggleDisclosed(dc, prevented))

Disclosed(v, prevented) == Dispatching(disclosed(dc, v, prevented))

WeakUndisclosed(weak) == dc' = weakUndisclosed(dc, weak) /\ UNCHANGED <<tabGroupVars, sc, lc>>

Labels(l) == dc' = labels(dc, l) /\ UNCHANGED <<tabGroupVars, sc, lc>>

Appearance(a) == dc' = appearance(dc, a) /\ UNCHANGED <<tabGroupVars, sc, lc>>

DiscloseNext ==
    \/ \E prevented \in BOOLEAN : ClickDiscloseButton(prevented)
    \/ \E prevented \in BOOLEAN : ToggleDisclosed(prevented)
    \/ \E v \in BOOLEAN, prevented \in BOOLEAN : Disclosed(v, prevented)
    \/ \E weak \in BOOLEAN : WeakUndisclosed(weak)
    \/ \E l \in DisclosureContainerLabels : Labels(l)
    \/ \E a \in DisclosureContainerAppearance : Appearance(a)

DiscloseSpec == DiscloseInit /\ [][DiscloseNext]_vars

----------------------------------------------------------------------------
(* The program of a scroll container: every constructor call, then calls   *)
(* of the methods, changes of the layout that the observers report, and    *)
(* scrolling.                                                              *)

\* The layout after a change of the sizes on one axis; the browser keeps the
\* scroll position within the new scroll range.
LayoutChanges(s) ==
    LET max(a) == a.scroll - a.client
        keep(a, pos) == [client |-> a.client, scroll |-> a.scroll, room |-> a.room,
                         pos |-> IF pos < 0 THEN (IF -pos > max(a) THEN -max(a) ELSE pos)
                                 ELSE (IF pos > max(a) THEN max(a) ELSE pos)]
    IN {[s.dom EXCEPT !.h = keep(a, s.dom.h.pos)] : a \in AxisLayouts}
       \cup {[s.dom EXCEPT !.v = keep(a, s.dom.v.pos)] : a \in AxisLayouts}

\* The layout after a change of the content: another scroll extent on one
\* axis, or another writing direction.
ContentChanges(s) ==
    {d \in LayoutChanges(s) :
        /\ d.h.client = s.dom.h.client /\ d.h.room = s.dom.h.room
        /\ d.v.client = s.dom.v.client /\ d.v.room = s.dom.v.room}
    \cup {[s.dom EXCEPT !.rtl = ~@, !.h.pos = 0]}

\* The layout after scrolling: scrollLeft is 0 or negative in a right-to-left
\* container.
ScrollPositions(s) ==
    LET hMax == s.dom.h.scroll - s.dom.h.client
        vMax == s.dom.v.scroll - s.dom.v.client
    IN {[s.dom EXCEPT !.h.pos = IF s.dom.rtl THEN -x ELSE x] : x \in 0..hMax}
       \cup {[s.dom EXCEPT !.v.pos = y] : y \in 0..vMax}

ScrollBecomes(s) == sc' = s /\ UNCHANGED <<tabGroupVars, dc, lc>>

ScrollInit ==
    /\ NewTabGroups
    /\ dc = DisclosureContainer([Captions |-> <<"+", "-">>, Titles |-> <<"", "">>],
                                TRUE, FALSE, 0)
    /\ \E h \in BOOLEAN, v \in BOOLEAN, n \in BOOLEAN : sc = ScrollContainer(h, v, n)
    /\ lc = [i \in Labeled |-> LabeledTextArea(None, None)]

\* ScrollContainer.sync()
Sync == ScrollBecomes(syncScrollBarGeometry(sc))

\* The callback of #resizeObserver after the size of the root element or of a
\* child of the content element has changed; it does nothing in a container
\* without scroll bars.
ResizeObserved(d) ==
    /\ d # sc.dom
    /\ ~sc.native
    /\ sc.vertical \/ sc.horizontal
    /\ ScrollBecomes(syncScrollBarGeometry([sc EXCEPT !.dom = d]))

\* The callback of #mutationObserver after a change below the content element.
MutationObserved(d) ==
    /\ d # sc.dom
    /\ ~sc.native
    /\ ScrollBecomes(syncScrollBarGeometry([sc EXCEPT !.dom = d]))

\* A 'scroll' event of the content element.
ScrollEvent(d) ==
    /\ d # sc.dom
    /\ ~sc.native
    /\ ScrollBecomes(syncScrollBars([sc EXCEPT !.dom = d]))

\* The timeout that #onScrollEnd starts; no pointer is held down.
ScrollEndTimeout ==
    /\ "scrolling" \in sc.classes
    /\ ScrollBecomes([sc EXCEPT !.classes = @ \ {"scrolling"}])

ScrollNext ==
    \/ Sync
    \/ \E d \in LayoutChanges(sc) : ResizeObserved(d)
    \/ \E d \in ContentChanges(sc) : MutationObserved(d)
    \/ \E d \in ScrollPositions(sc) : ScrollEvent(d)
    \/ ScrollEndTimeout

ScrollSpec == ScrollInit /\ [][ScrollNext]_vars

----------------------------------------------------------------------------
(* The program of the labeled components: each is made without a position  *)
(* and an alignment, then the setters are called.                          *)

LabelInit ==
    /\ NewTabGroups
    /\ dc = DisclosureContainer([Captions |-> <<"+", "-">>, Titles |-> <<"", "">>],
                                TRUE, FALSE, 0)
    /\ sc = ScrollContainer(TRUE, TRUE, FALSE)
    /\ lc = [i \in Labeled |-> LabeledTextArea(None, None)]

\* labelPosition(v) and the setter LabelPosition of component i
SetLabelPosition(i, v) ==
    /\ lc' = [lc EXCEPT ![i] = labelPosition(@, v)]
    /\ UNCHANGED <<tabGroupVars, dc, sc>>

\* labelAlignment(v) and the setter LabelAlignment of component i
SetLabelAlignment(i, v) ==
    /\ lc' = [lc EXCEPT ![i] = labelAlignment(@, v)]
    /\ UNCHANGED <<tabGroupVars, dc, sc>>

LabelNext ==
    \/ \E i \in Labeled, v \in LabelPositions : SetLabelPosition(i, v)
    \/ \E i \in Labeled, v \in LabelAlignments : SetLabelAlignment(i, v)

LabelSpec == LabelInit /\ [][LabelNext]_vars

----------------------------------------------------------------------------
(* Claims *)

\* The tabs of group g whose Tab.Active is true.
ActiveTabsOf(g) == {tab \in Range(tabs[g]) : tabActive[tab]}

\* C1: the tab panels of a tab group are mutually exclusive: in every state
\* at most one tab of a group has Tab.Active true, and the content area of
\* the group holds the content of at most one tab, which is then the
\* content of TabGroup.Active.
C1_MutuallyExclusive ==
    \A g \in Group :
        /\ Cardinality(ActiveTabsOf(g)) <= 1
        /\ Cardinality(tabContent[g]) <= 1
        /\ tabContent[g] # {} => tabContent[g] = {activeTab[g]}

\* C1 witness: a group with several tabs shows the content of its active
\* tab, which is not its first tab (so the active tab was switched), and
\* this tab is the only one with Tab.Active true.
C1_Witness ==
    \E g \in Group :
        /\ Len(tabs[g]) >= 2
        /\ activeTab[g] # None
        /\ activeTab[g] # tabs[g][1]
        /\ tabContent[g] = {activeTab[g]}
        /\ ActiveTabsOf(g) = {activeTab[g]}

\* The nearest tab of seq that is not in `removed`, seen from tab a: the
\* first one to the right of a or, with none there, the closest to its left.
Nearest(seq, a, removed) ==
    LET ia    == IndexOf(seq, a) + 1
        right == {i \in (ia + 1)..Len(seq) : seq[i] \notin removed}
        left  == {i \in 1..(ia - 1) : seq[i] \notin removed}
    IN IF right # {} THEN seq[CHOOSE i \in right : \A j \in right : i <= j]
       ELSE IF left # {} THEN seq[CHOOSE i \in left : \A j \in left : i >= j]
       ELSE None

\* C2: when remove(...tabs) or extract(to, ...tabs) takes out tabs that
\* include the active tab and at least one tab stays, the tab that becomes
\* active is the nearest tab that stays: the first to the right of the
\* formerly active tab, else the closest to its left.
C2_NearestTabActivated ==
    \A g \in Group, ts \in ArgSeqs :
        LET removed == Range(ts) \cap Range(tabs[g])
        IN (/\ ts # <<>>
            /\ activeTab[g] \in removed
            /\ Range(tabs[g]) \ removed # {})
           => /\ remove(S, g, ts).activeTab[g] = Nearest(tabs[g], activeTab[g], removed)
              /\ extract(S, g, ts).st.activeTab[g] = Nearest(tabs[g], activeTab[g], removed)

\* C3: getTabToActivateAfterRemoval(tabsToRemove) returns undefined only
\* when the active tab is not among the tabs to be removed or no tab of the
\* group is left after the removal; otherwise it returns a tab of the group
\* that is not in tabsToRemove.
C3_UndefinedOnlyWhenNothingToActivate ==
    \A g \in Group, ts \in ArgSeqs :
        LET r == getTabToActivateAfterRemoval(S, g, ts)
        IN IF activeTab[g] \notin Range(ts) \/ Range(tabs[g]) \ Range(ts) = {}
           THEN r = None
           ELSE r \in Range(tabs[g]) \ Range(ts)

\* C4: remove() with no arguments removes all tabs of the group (Tabs is
\* empty and Active undefined afterwards) without disposing them; elements
\* of `tabs` that are no tabs of the group are ignored.
C4_RemoveWithoutArgumentsRemovesAll ==
    \A g \in Group :
        /\ remove(S, g, <<>>).tabs[g] = <<>>
        /\ remove(S, g, <<>>).activeTab[g] = None
        /\ remove(S, g, <<>>).disposed = disposed
        /\ \A ts \in ArgSeqs :
              ts # <<>> =>
                remove(S, g, ts) =
                    IF FilterIn(ts, Range(tabs[g])) = <<>> THEN S
                    ELSE remove(S, g, FilterIn(ts, Range(tabs[g])))

\* The tab is not in use: it is no tab of a tab group, and neither its
\* header nor its content is mounted anywhere.
Unused(tab) ==
    /\ \A g \in Group : ~Includes(tabs[g], tab) /\ tab \notin tabContent[g]
    /\ elsewhere[tab] = "none"

\* The first tab of ts that is not in use, or None.
FirstUnused(ts) ==
    IF \E i \in 1..Len(ts) : Unused(ts[i])
    THEN ts[CHOOSE i \in 1..Len(ts) : Unused(ts[i]) /\ \A j \in 1..(i - 1) : ~Unused(ts[j])]
    ELSE None

C6_CloseTab ==
    \A g \in Group, tab \in Tab :
        LET r == requestCloseTab(S, g, tab)
            index == IndexOf(tabs[g], tab)
            rest == FilterOut(tabs[g], {tab})
        IN IF index = -1
           THEN ~r.ret /\ r.st = S
           ELSE /\ r.ret
                /\ r.st.tabs[g] = rest
                /\ r.st.disposed[tab]
                /\ r.st.activeTab[g] =
                       IF activeTab[g] # tab THEN activeTab[g]
                       ELSE IF index < Len(rest) THEN rest[index + 1]
                       ELSE AtLast(rest)

\* C7: requestActivateTab(tab) returns true exactly when tab is a tab of the
\* group; when it returns true the tab is activated (TabGroup.Active is tab,
\* tab.Active is true, the content of tab is the content shown); when it
\* returns false, Tabs and Active are unchanged.
C7_ActivateTab ==
    \A g \in Group, tab \in Tab :
        LET r == requestActivateTab(S, g, tab)
        IN /\ r.ret <=> tab \in Range(tabs[g])
           /\ r.ret => /\ r.st.activeTab[g] = tab
                       /\ r.st.active[tab]
                       /\ r.st.tabContent[g] = {tab}
           /\ ~r.ret => r.st.tabs = tabs /\ r.st.activeTab = activeTab

\* k consecutive calls of next()
RECURSIVE NextTimes(_, _, _)
NextTimes(s, g, k) == IF k = 0 THEN s ELSE NextTimes(next(s, g), g, k - 1)

\* C8: with the active tab at index i of n tabs, next() activates the tab
\* at index (i+1) mod n and previous() the tab at index (i-1) mod n, so
\* next() and then previous() restores the active tab and n calls of next()
\* return to the starting tab; first() and last() activate the tabs at
\* index 0 and n-1; with no active tab next() and previous() change nothing.
C8_Cycle ==
    \A g \in Group :
        LET n == Len(tabs[g])
            i == IndexOf(tabs[g], activeTab[g])
        IN /\ i # -1 =>
                /\ next(S, g).activeTab[g] = At(tabs[g], (i + 1) % n)
                /\ previous(S, g).activeTab[g] = At(tabs[g], (i + n - 1) % n)
                /\ previous(next(S, g), g).activeTab[g] = activeTab[g]
                /\ NextTimes(S, g, n).activeTab[g] = activeTab[g]
                /\ next(S, g).tabs = tabs /\ previous(S, g).tabs = tabs
           /\ n > 0 =>
                /\ first(S, g).activeTab[g] = At(tabs[g], 0)
                /\ last(S, g).activeTab[g] = At(tabs[g], n - 1)
           /\ activeTab[g] = None => next(S, g) = S /\ previous(S, g) = S

\* C8 witness: the last of three tabs is active and shown, and next() wraps
\* around to the first tab.
C8_Witness ==
    \E g \in Group :
        /\ Len(tabs[g]) = 3
        /\ activeTab[g] = tabs[g][3]
        /\ tabContent[g] = {tabs[g][3]}
        /\ next(S, g).activeTab[g] = tabs[g][1]
        /\ next(S, g).tabContent[g] = {tabs[g][1]}

\* Every value of `at`, for checking moveToAt() against any target.
AllAtValues == {AtNum(n) : n \in (-1)..NumTabs} \cup {AtTab(tab) : tab \in Tab}

\* C9: moveTo(target, ...) and moveToAt(target, at, ...) throw an Error
\* when target is the same tab group, and moveToAt throws an Error when
\* `at` is a tab that is no tab of target; the Tabs and Active of both tab
\* groups are unchanged then.
C9_ThrowsAndChangesNothing ==
    /\ \A g \in Group, ts \in ArgSeqs :
          LET r == moveTo(S, g, g, ts)
          IN r.ret = "throw" /\ r.st.tabs = tabs /\ r.st.activeTab = activeTab
    /\ \A g \in Group, target \in Group, at \in AllAtValues, ts \in ArgSeqs :
          (target = g \/ (at[1] = "tab" /\ at[2] \notin Range(tabs[target]))) =>
              LET r == moveToAt(S, g, target, at, ts)
              IN r.ret = "throw" /\ r.st.tabs = tabs /\ r.st.activeTab = activeTab

\* C9 witness: a call has thrown, and left a tab group with tabs and an
\* active tab and another tab group whose tabs could have been moved.
C9_Witness ==
    /\ thrown
    /\ \E g \in Group, h \in Group :
          g # h /\ Len(tabs[g]) >= 2 /\ activeTab[g] # None /\ Len(tabs[h]) >= 1

\* No tab is listed in the Tabs of two tab groups.
InOneGroupOnly(s) ==
    \A g \in Group, h \in Group :
        g # h => Range(s.tabs[g]) \cap Range(s.tabs[h]) = {}

\* In state r the tabs `given` of group g have moved to target, and every
\* other tab is a tab of the groups it was a tab of.
Moved(r, g, target, given) ==
    /\ given \subseteq Range(r.tabs[target])
    /\ given \cap Range(r.tabs[g]) = {}
    /\ \A tab \in Tab \ given, h \in Group :
          tab \in Range(r.tabs[h]) <=> tab \in Range(tabs[h])
    /\ InOneGroupOnly(r)

\* C10: after source.moveTo(target, ...tabs) or source.moveToAt(target, at,
\* ...tabs) with another group as target, every given tab that was a tab of
\* source is a tab of target and no tab of source (with no tabs given: all
\* tabs of source), given tabs that were no tabs of source are ignored, and
\* no tab is ever listed in the Tabs of two tab groups.
C10_TabsMoved ==
    /\ InOneGroupOnly(S)
    /\ \A g \in Group : \A target \in Group \ {g}, ts \in ArgSeqs :
          LET given == IF ts = <<>> THEN Range(tabs[g])
                       ELSE Range(ts) \cap Range(tabs[g])
          IN /\ Moved(moveTo(S, g, target, ts).st, g, target, given)
             /\ \A at \in AllAtValues :
                   (at[1] = "tab" => at[2] \in Range(tabs[target])) =>
                       Moved(moveToAt(S, g, target, at, ts).st, g, target, given)

\* C10 witness: moveTo(target, t, u) from a group with active tab t to a
\* group that has tabs, where u is no tab of the source: t moves, the
\* source activates another tab and u stays where it is.
C10_Witness ==
    \E g \in Group : \E target \in Group \ {g}, ts \in ArgSeqs :
        /\ Len(ts) = 2
        /\ activeTab[g] = ts[1] /\ Len(tabs[g]) >= 2
        /\ Includes(tabs[target], ts[2])
        /\ moveTo(S, g, target, ts).st.tabs[target] = Append(tabs[target], ts[1])
        /\ moveTo(S, g, target, ts).st.activeTab[g] \in Range(tabs[g]) \ {ts[1]}

\* C11: append(...tabs) ignores every given tab that is part of this tab
\* group already or whose header or content is mounted elsewhere: such a tab
\* keeps its position and owner, the existing tabs of this group keep their
\* order (the tabs taken are added behind them), and the Tabs and Active of
\* every other tab group are unchanged.
C11_AppendIgnoresTabsInUse ==
    \A g \in Group, ts \in ArgSeqs :
        (ts # <<>> /\ Alive(ts)) =>
            LET r == append(S, g, ts)
                taken == SelectSeq(Unique(ts), Unused)
            IN /\ r.tabs[g] = tabs[g] \o taken
               /\ \A h \in Group \ {g} :
                     r.tabs[h] = tabs[h] /\ r.activeTab[h] = activeTab[h]
               /\ \A i \in 1..Len(ts) :
                     ~Unused(ts[i]) =>
                        /\ r.tabGroup[ts[i]] = tabGroup[ts[i]]
                        /\ r.elsewhere[ts[i]] = elsewhere[ts[i]]
                        /\ \A h \in Group :
                              /\ IndexOf(r.tabs[h], ts[i]) = IndexOf(tabs[h], ts[i])
                              /\ ts[i] \in r.tabContent[h] <=> ts[i] \in tabContent[h]

\* C11 witness: append(t, u) on a group with tabs, where t is a tab of
\* another group and u has its content mounted in a foreign component;
\* both are ignored.
C11_Witness ==
    \E g \in Group, ts \in ArgSeqs :
        /\ Len(ts) = 2 /\ Alive(ts)
        /\ tabs[g] # <<>>
        /\ \E h \in Group \ {g} : Includes(tabs[h], ts[1])
        /\ elsewhere[ts[2]] = "content"
        /\ append(S, g, ts) = S

\* What the user sees of a disclosure container.
Disclosure(s) ==
    [Disclosed |-> s.disclosed,
     classes |-> s.classes,
     caption |-> s.text,
     title |-> s.title,
     mounted |-> Includes(s.uiChildren, "content-container"),
     uiChildren |-> s.uiChildren]

\* C12: a click on the disclose button and a toggleDisclosed() call flip
\* Disclosed when no handler prevents the 'disclose' event; two consecutive
\* toggles that are not prevented restore Disclosed, the CSS classes, caption
\* and title of the button and the mounting of the content; disclosed(v) with
\* v equal to Disclosed dispatches no 'disclose' event and changes nothing.
C12_ToggleIsInvolution ==
    LET click(s) == onDiscloseButtonClick(s, FALSE)
        toggle(s) == toggleDisclosed(s, FALSE)
    IN /\ click(dc).disclosed = ~dc.disclosed
       /\ toggle(dc).disclosed = ~dc.disclosed
       /\ click(dc).dispatched = dc.dispatched + 1
       /\ toggle(dc).dispatched = dc.dispatched + 1
       /\ Disclosure(click(click(dc))) = Disclosure(dc)
       /\ Disclosure(toggle(toggle(dc))) = Disclosure(dc)
       /\ Disclosure(click(toggle(dc))) = Disclosure(dc)
       /\ Disclosure(toggle(click(dc))) = Disclosure(dc)
       /\ \A prevented \in BOOLEAN : disclosed(dc, dc.disclosed, prevented) = dc

\* C12 witness: an undisclosed container without its content, with a caption
\* that differs between the two states, after two more 'disclose' events than
\* the one of the constructor.
C12_Witness ==
    /\ ~dc.disclosed /\ ~dc.weakUndisclosed
    /\ ~Includes(dc.uiChildren, "content-container")
    /\ dc.text = "Show"
    /\ dc.dispatched = 3

\* The layouts a geometry sync may find at the current state.
SyncLayouts == {sc.dom} \cup LayoutChanges(sc) \cup ContentChanges(sc)

\* The thumb length in percent, the display of the overlay and the class
\* h-off (v-off) as C13 states them for an axis.
ThumbAsClaimed(axis, thumb, display, off) ==
    IF axis.client < axis.scroll
    THEN thumb = Quot(axis.client * 100, axis.scroll) /\ ~off
    ELSE thumb = <<100, 1>> /\ display = "none" /\ off

\* C13: with synthetic scroll bars and an enabled axis, after a geometry sync
\* the thumb length of the axis is clientExtent / scrollExtent x 100 percent
\* and the class h-off (v-off) is absent if clientExtent < scrollExtent;
\* otherwise the thumb is 100 percent, the overlay of the bar is hidden and
\* the class is set.
C13_ThumbLength ==
    \A d \in SyncLayouts :
        LET r == syncScrollBarGeometry([sc EXCEPT !.dom = d])
        IN ~sc.native =>
              /\ sc.horizontal =>
                    ThumbAsClaimed(d.h, r.hBarThumbWidth, r.hBarOverlayDisplay,
                                   "h-off" \in r.classes)
              /\ sc.vertical =>
                    ThumbAsClaimed(d.v, r.vBarThumbHeight, r.vBarOverlayDisplay,
                                   "v-off" \in r.classes)

\* q clamped into [lo, hi]
Clamped(q, lo, hi) == IF Less(q, lo) THEN lo ELSE IF Less(hi, q) THEN hi ELSE q

\* The layouts a repositioning may find at the current state.
RepositionLayouts == {sc.dom} \cup ScrollPositions(sc)

\* The scroll position of an axis as C14 counts it: scrollLeft negated in a
\* right-to-left container.
PositionOf(d, axis) == IF axis = "h" THEN (IF d.rtl THEN -d.h.pos ELSE d.h.pos) ELSE d.v.pos

\* The offsets of a thumb as C14 states them for an axis with a positive bar
\* scroll range: offset(d) is the offset set on repositioning in layout d.
OffsetsAsClaimed(axis, barRange, scrollRange, offset(_)) ==
    \A d \in RepositionLayouts :
        LET x == offset(d)
            max == d[axis].scroll - d[axis].client
        IN /\ x = Clamped(Quot(barRange * PositionOf(d, axis), scrollRange),
                          <<0, 1>>, <<barRange, 1>>)
           /\ ~Less(x, <<0, 1>>) /\ ~Less(<<barRange, 1>>, x)
           /\ PositionOf(d, axis) = 0 => x = <<0, 1>>
           /\ PositionOf(d, axis) = max => x = <<barRange, 1>>
           /\ \A e \in RepositionLayouts :
                 PositionOf(d, axis) <= PositionOf(e, axis) => ~Less(offset(e), x)

\* C14: with synthetic scroll bars and an enabled axis with a positive bar
\* scroll range, the thumb offset set on repositioning is barRange x
\* scrollPosition / scrollRange clamped into [0, barRange]: it is 0 at scroll
\* position 0, barRange at the maximum scroll position and non-decreasing in
\* the scroll position; on both axes the offset of the thumb (inline for the
\* horizontal, block for the vertical thumb) is cleared and the overlay
\* hidden when the bar scroll range is not positive.
C14_ThumbOffset ==
    LET r(d) == repositionScrollBars([sc EXCEPT !.dom = d])
        hOffset(d) == r(d).hBarThumbInsetInlineStart
        vOffset(d) == r(d).vBarThumbInsetBlockStart
    IN ~sc.native =>
          /\ (sc.horizontal /\ sc.hBarScrollRange > 0) =>
                OffsetsAsClaimed("h", sc.hBarScrollRange, sc.hScrollRange, hOffset)
          /\ (sc.vertical /\ sc.vBarScrollRange > 0) =>
                OffsetsAsClaimed("v", sc.vBarScrollRange, sc.vScrollRange, vOffset)
          /\ sc.hBarScrollRange <= 0 =>
                \A d \in RepositionLayouts :
                    hOffset(d) = <<>> /\ r(d).hBarOverlayDisplay = "none"
          /\ sc.vBarScrollRange <= 0 =>
                \A d \in RepositionLayouts :
                    vOffset(d) = <<>> /\ r(d).vBarOverlayDisplay = "none"

\* The class C15 pairs with a label position and with a label alignment.
ClassOfPosition(v) == <<"p-top", "p-end", "p-bottom", "p-start">>[v]
ClassOfAlignment(v) == <<"a-start", "a-center", "a-end">>[v]

\* Of the position classes and of the alignment classes exactly the class of
\* the current value is set.
ClassesMatch(s) ==
    /\ s.classes \cap {"p-top", "p-end", "p-bottom", "p-start"} = {ClassOfPosition(LabelPosition(s))}
    /\ s.classes \cap {"a-start", "a-center", "a-end"} = {ClassOfAlignment(LabelAlignment(s))}

\* C15: a labeled component carries exactly one label-position class and
\* exactly one label-alignment class, the classes of its current
\* LabelPosition and LabelAlignment: after construction with any arguments
\* and after every sequence of labelPosition() and labelAlignment() calls;
\* the getters LabelPosition and LabelAlignment return the value last set.
C15_OneClassEach ==
    /\ \A p \in LabelPositions \cup {None}, a \in LabelAlignments \cup {None} :
          LET s == LabeledTextArea(p, a)
          IN /\ ClassesMatch(s)
             /\ LabelPosition(s) = OrDefault(p, LabelPosition_TOP)
             /\ LabelAlignment(s) = OrDefault(a, LabelAlignment_START)
    /\ \A i \in Labeled :
          /\ ClassesMatch(lc[i])
          /\ \A v \in LabelPositions :
                LET s == labelPosition(lc[i], v)
                IN /\ ClassesMatch(s)
                   /\ LabelPosition(s) = v
                   /\ LabelAlignment(s) = LabelAlignment(lc[i])
          /\ \A v \in LabelAlignments :
                LET s == labelAlignment(lc[i], v)
                IN /\ ClassesMatch(s)
                   /\ LabelAlignment(s) = v
                   /\ LabelPosition(s) = LabelPosition(lc[i])

\* C15 witness: component 1 was moved to BOTTOM and aligned to END, so its
\* label is the last child; component 2 was moved away from TOP and back to
\* START with the alignment CENTER.
C15_Witness ==
    /\ LabelPosition(lc[1]) = LabelPosition_BOTTOM
    /\ LabelAlignment(lc[1]) = LabelAlignment_END
    /\ lc[1].uiChildren = <<"component", "label">>
    /\ lc[1].classes = {"p-bottom", "a-end"}
    /\ LabelPosition(lc[2]) = LabelPosition_START
    /\ LabelAlignment(lc[2]) = LabelAlignment_CENTER
    /\ lc[2].classes = {"p-start", "a-center"}

====
